---- MODULE Spec2Model ----
(***************************************************************************)
(* Model of dfa/dataset.py: the Dataset class that expands a dataset       *)
(* archive, derives the image and profile indices from summary.csv, hands  *)
(* out batches through generators and re-packs a dataset with save.        *)
(*                                                                         *)
(* Three specifications share the variables:                               *)
(*   Spec     a constructed Dataset and its batch generators, created and  *)
(*            consumed in any order                                        *)
(*   SpecSeq  the same Dataset used one batch at a time: a batch is        *)
(*            requested once the earlier ones are finished                 *)
(*   SpecFS   the file system: construction (extraction, loading), save    *)
(***************************************************************************)
EXTENDS Integers, Sequences, FiniteSets, TLC

\* ------------------------------------------------------------- bounds ----
MaxRows == 2     \* rows of summary.csv
MaxBatch == 2    \* largest integer batch_size requested
MaxGens == 2     \* generator objects created in one run of Spec
MaxCalls == 3    \* batch calls made in one run of SpecSeq

\* Values of the three index columns of summary.csv.
Experiments == {1}
Images == {1, 2}
Fibers == {1, 2}

\* batch_size is "0 < int | None" (dataset.py:90): 0 is free to stand for None.
None == 0

VARIABLES
    summary,        \* self.summary: the rows of summary.csv, sorted by key
    image_index,    \* self.image_index
    profile_index,  \* self.profile_index
    _n_image,       \* self._n_image
    _n_profile,     \* self._n_profile
    gens,           \* the generator objects returned by next_*_batch, in call order
    sequential,     \* history: per index, every call was made with all earlier
                    \* generators of that index finished
    fs,             \* file system: path -> content
    zips,           \* zip archives on disk: archive path -> (entry name -> content)
    dataset_path,   \* self.dataset_path
    obj,            \* "none" | "ok" | "failed": outcome of the last construction
    origin,         \* history: summary of the Dataset whose save wrote each archive
    built,          \* history: the <<archive, storing_path>> pairs constructed so far
    last            \* history: the parameters and the branch of the last operation

vars == <<summary, image_index, profile_index, _n_image, _n_profile, gens,
          sequential, fs, zips, dataset_path, obj, origin, built, last>>

\* ------------------------------------------------------ summary table ----
Keys == Experiments \X Images \X Fibers

RECURSIVE SeqsUpTo(_, _)
SeqsUpTo(S, n) ==
    IF n = 0 THEN {<<>>}
    ELSE LET shorter == SeqsUpTo(S, n - 1)
         IN  shorter \cup {Append(s, x) : s \in {t \in shorter : Len(t) = n - 1}, x \in S}

\* The contents summary.csv can have: one row per line, keyed by its first
\* three columns; the remaining columns play no part in the indices.
Tables == SeqsUpTo(Keys, MaxRows)

KeyLess(a, b) ==
    \/ a[1] < b[1]
    \/ a[1] = b[1] /\ a[2] < b[2]
    \/ a[1] = b[1] /\ a[2] = b[2] /\ a[3] < b[3]

Perms(n) == {p \in [1..n -> 1..n] : \A i, j \in 1..n : p[i] = p[j] => i = j}

Permute(rows, p) == [i \in 1..Len(rows) |-> rows[p[i]]]

IsSorted(rows) == \A i \in 1..(Len(rows) - 1) : ~KeyLess(rows[i + 1], rows[i])

\* DataFrame.sort_index(): the rows in ascending key order.
SortIndex(rows) ==
    Permute(rows, CHOOSE p \in Perms(Len(rows)) : IsSorted(Permute(rows, p)))

\* index.droplevel('fiber')
DropLevelFiber(idx) == [i \in 1..Len(idx) |-> <<idx[i][1], idx[i][2]>>]

\* Index.unique(): first occurrences, in order.
RECURSIVE Unique(_)
Unique(idx) ==
    IF idx = <<>> THEN <<>>
    ELSE LET front == Unique(SubSeq(idx, 1, Len(idx) - 1))
             x == idx[Len(idx)]
         IN  IF \E i \in 1..Len(front) : front[i] = x THEN front
             ELSE Append(front, x)

\* tmp = summary.copy(); if shuffle: tmp = tmp.sample(frac=1)
Sample(rows, shuffle, p) == IF shuffle THEN Permute(rows, p) ELSE rows

\* Mutant of ImageIndexOf: the fiber level is dropped and no duplicate removed.
ImageIndexKeepDuplicates(tmp) == DropLevelFiber(tmp)

\* self.image_index = tmp.index.droplevel('fiber').unique()
ImageIndexOf(tmp) == Unique(DropLevelFiber(tmp))

\* self.profile_index = tmp.index.unique()
ProfileIndexOf(tmp) == Unique(tmp)

\* ------------------------------------------------------------ batches ----
Kinds == {"image", "profile"}

BatchSizes == {None} \cup (1..MaxBatch)

\* getattr(self, index)
Index(kind) == IF kind = "image" THEN image_index ELSE profile_index

\* getattr(self, n)
Cursor(kind) == IF kind = "image" THEN _n_image ELSE _n_profile

\* Mutant of CursorBelow: the test lets a cursor at the index length through.
CursorBelowOrAt(cur, size) == cur <= size

\* if getattr(self, n) < getattr(self, index).size
CursorBelow(cur, size) == cur < size

\* if batch_size is None: batch_size = getattr(self, index).size
EffectiveSize(batch_size, size) == IF batch_size = None THEN size ELSE batch_size

\* Mutant of BatchEnd: the end of the batch is one too far.
BatchEndOffByOne(cur, batch_size) == cur + batch_size + 1

\* end = getattr(self, n) + batch_size
BatchEnd(cur, batch_size) == cur + batch_size

\* Mutant of NewCursor: the cursor skips the key after the batch.
NewCursorSkip(begin, end) == end + 1

\* Mutant of NewCursor: the cursor is left where the batch began.
NewCursorStale(begin, end) == begin

\* setattr(self, n, end)
NewCursor(begin, end) == end

\* Python slice bounds of index[begin:end] for 0 <= begin, 0 <= end:
\* positions begin .. SliceStop - 1 (0-based).
SliceStop(size, end) == IF end < size THEN end ELSE size

\* A generator object: its arguments, where its body stands (status), the
\* locals begin and end, the number n of elements it has produced, and as
\* history the cursor value c0 at the call that made it.
Gen(kind, batch_size, cur) ==
    [kind |-> kind, batch_size |-> batch_size, status |-> "created",
     begin |-> 0, end |-> 0, n |-> 0, c0 |-> cur]

Unfinished(kind) ==
    \E i \in 1..Len(gens) : gens[i].kind = kind /\ gens[i].status \in {"created", "suspended"}

\* Calling a generator function runs none of its body: the call only makes
\* the generator object.
next_batch(kind, batch_size) ==
    /\ gens' = Append(gens, Gen(kind, batch_size, Cursor(kind)))
    /\ sequential' = [sequential EXCEPT ![kind] = @ /\ ~Unfinished(kind)]
    /\ UNCHANGED <<summary, image_index, profile_index, _n_image, _n_profile,
                   fs, zips, dataset_path, obj, origin, built, last>>

next_image_batch(batch_size) == next_batch("image", batch_size)

next_profile_batch(batch_size) == next_batch("profile", batch_size)

SetCursor(kind, value) ==
    /\ _n_image' = IF kind = "image" THEN value ELSE _n_image
    /\ _n_profile' = IF kind = "profile" THEN value ELSE _n_profile

\* One iteration of "for index in ...[begin:end]: yield mapping(index)" for a
\* generator whose slice is begin .. stop-1 and that has produced n elements:
\* the next key is mapped (ok: the mapping returns, otherwise it raises) or
\* the loop ends.
LoopStep(g, stop, ok) ==
    IF g.begin + g.n < stop
    THEN IF ok THEN [g EXCEPT !.status = "suspended", !.n = @ + 1]
         ELSE [g EXCEPT !.status = "failed"]
    ELSE [g EXCEPT !.status = "done"]

\* First next() on a generator: the body runs from its top to the first yield.
Start(i) ==
    LET g == gens[i]
        size == Len(Index(g.kind))
        cur == Cursor(g.kind)
    IN  /\ g.status = "created"
        /\ IF CursorBelow(cur, size)
           THEN LET end == BatchEnd(cur, EffectiveSize(g.batch_size, size))
                    started == [g EXCEPT !.begin = cur, !.end = end]
                IN  /\ SetCursor(g.kind, NewCursor(cur, end))
                    /\ \E ok \in BOOLEAN :
                         gens' = [gens EXCEPT ![i] = LoopStep(started, SliceStop(size, end), ok)]
           ELSE /\ gens' = [gens EXCEPT ![i].status = "done"]
                /\ UNCHANGED <<_n_image, _n_profile>>
        /\ UNCHANGED <<summary, image_index, profile_index, sequential,
                       fs, zips, dataset_path, obj, origin, built, last>>

\* A later next(): the body resumes after the yield.
Resume(i) ==
    LET g == gens[i]
        size == Len(Index(g.kind))
    IN  /\ g.status = "suspended"
        /\ \E ok \in BOOLEAN :
             gens' = [gens EXCEPT ![i] = LoopStep(g, SliceStop(size, g.end), ok)]
        /\ UNCHANGED <<summary, image_index, profile_index, _n_image, _n_profile,
                       sequential, fs, zips, dataset_path, obj, origin, built, last>>

StartSome == \E i \in 1..Len(gens) : Start(i)

ResumeSome == \E i \in 1..Len(gens) : Resume(i)

\* -------------------------------------------------------- file system ----
\* A file or directory name is a sequence of string tokens, a path a sequence
\* of names; a file's content is a record.
Str(n) == CASE n = 1 -> "1" [] n = 2 -> "2" [] n = 3 -> "3" [] OTHER -> "?"

Extensions == {".zip", ".tif", ".csv"}

\* os.path.join(path, name)
join(path, name) == Append(path, name)

\* os.path.basename(path)
basename(path) == path[Len(path)]

\* os.path.splitext(name)[0]
splitext0(name) ==
    IF Len(name) > 1 /\ name[Len(name)] \in Extensions
    THEN SubSeq(name, 1, Len(name) - 1)
    ELSE name

IsPrefix(p, q) == Len(p) <= Len(q) /\ SubSeq(q, 1, Len(p)) = p

IsSuffix(p, q) == Len(p) <= Len(q) /\ SubSeq(q, Len(q) - Len(p) + 1, Len(q)) = p

\* os.path.exists(path): a file, or a directory some file lies in.
Exists(files, path) == \E q \in DOMAIN files : IsPrefix(path, q)

IsFile(files, path) == path \in DOMAIN files

Empty == [x \in {} |-> x]

Overwrite(f, g) ==
    [x \in (DOMAIN f) \cup (DOMAIN g) |-> IF x \in DOMAIN g THEN g[x] ELSE f[x]]

Csv(rows) == [type |-> "csv", rows |-> rows]

Bin == [type |-> "bin", rows |-> <<>>]

SummaryName == <<"summary", ".csv">>

\* '{}-{}.tif'.format(*index)
TifNameLoad(ix) == <<Str(ix[1]), "-", Str(ix[2]), ".tif">>

\* '{}-{}.zip'.format(*index)
ZipNameLoad(ix) == <<Str(ix[1]), "-", Str(ix[2]), ".zip">>

\* '{}-{}-Profiles #{}.csv'.format(*index)
ProfileNameLoad(ix) == <<Str(ix[1]), "-", Str(ix[2]), "-Profiles #", Str(ix[3]), ".csv">>

\* ut.fiber_indicator
fiber_indicator == "-Profiles #"

\* '-'.join([str(e) for e in ix]) for a two-level key
JoinDash(ix) == <<Str(ix[1]), "-", Str(ix[2])>>

\* '{}.tif'.format(name), '{}.zip'.format(name)
TifNameSave(ix) == Append(JoinDash(ix), ".tif")

ZipNameSave(ix) == Append(JoinDash(ix), ".zip")

\* '{}{}{}.csv'.format('-'.join([str(e) for e in ix[:-1]]), ut.fiber_indicator, ix[-1])
ProfileNameSave(ix) ==
    JoinDash(<<ix[1], ix[2]>>) \o <<fiber_indicator, Str(ix[3]), ".csv">>

\* self.dataset_path = os.path.join(storing_path, splitext(basename(archive))[0])
DatasetPath(archive, storing_path) == join(storing_path, splitext0(basename(archive)))

\* Mutant of NeedDecompress: the archive is extracted at every construction.
NeedDecompressAlways(force_decompress, exists) == TRUE

\* if force_decompress or not os.path.exists(self.dataset_path)
NeedDecompress(force_decompress, exists) == force_decompress \/ ~exists

\* Mutant of ExtractTarget: the directories of the entry name are dropped.
ExtractTargetJunkPaths(storing_path, entry) == Append(storing_path, basename(entry))

\* zipfiles.extractall(path=self.storing_path): where an entry is written
ExtractTarget(storing_path, entry) == storing_path \o entry

ExtractAll(files, entries, storing_path) ==
    Overwrite(files,
              [q \in {ExtractTarget(storing_path, e) : e \in DOMAIN entries} |->
                 entries[CHOOSE e \in DOMAIN entries : ExtractTarget(storing_path, e) = q]])

\* Dataset._decompress(): the file system after the archive is extracted.
_decompress(files, archive, storing_path) == ExtractAll(files, zips[archive], storing_path)

\* The files of the directory tree at path.
Tree(files, path) == [q \in {r \in DOMAIN files : IsPrefix(path, r)} |-> files[q]]

NoOp ==
    [op |-> "none", archive |-> <<>>, storing_path |-> <<>>, force |-> FALSE,
     existed |-> FALSE, decompress |-> FALSE, again |-> FALSE, complete |-> FALSE]

\* Dataset.__init__(archive, storing_path, force_decompress, shuffle); p is
\* the permutation sample(frac=1) draws. ZipFile(archive) raises when the
\* archive cannot be opened, read_csv when summary.csv is not there.
__init__(archive, storing_path, force_decompress, shuffle, p) ==
    LET path == DatasetPath(archive, storing_path)
        need == NeedDecompress(force_decompress, Exists(fs, path))
        readable == archive \in DOMAIN zips
        files == IF need /\ readable THEN _decompress(fs, archive, storing_path)
                 ELSE fs
        csv == join(path, SummaryName)
        loaded == (~need \/ readable) /\ IsFile(files, csv)
        rows == IF loaded THEN SortIndex(files[csv].rows) ELSE <<>>
        tmp == Sample(rows, shuffle, p)
    IN  /\ fs' = files
        /\ dataset_path' = path
        /\ obj' = IF loaded THEN "ok" ELSE "failed"
        /\ summary' = rows
        /\ image_index' = ImageIndexOf(tmp)
        /\ profile_index' = ProfileIndexOf(tmp)
        /\ _n_image' = 0
        /\ _n_profile' = 0
        /\ gens' = <<>>
        /\ sequential' = [k \in Kinds |-> TRUE]
        /\ built' = built \cup {<<archive, storing_path>>}
        /\ last' = [op |-> "construct", archive |-> archive,
                    storing_path |-> storing_path, force |-> force_decompress,
                    existed |-> Exists(fs, path), decompress |-> need /\ readable,
                    again |-> <<archive, storing_path>> \in built,
                    complete |-> loaded]
        /\ UNCHANGED <<zips, origin>>

\* The number of rows the construction loads: the permutations of that many
\* rows are the draws of sample(frac=1).
RowCount(archive, storing_path, force_decompress) ==
    LET path == DatasetPath(archive, storing_path)
        csv == join(path, SummaryName)
        need == NeedDecompress(force_decompress, Exists(fs, path))
    IN  IF need
        THEN IF archive \notin DOMAIN zips THEN 0
             ELSE LET files == _decompress(fs, archive, storing_path)
                  IN  IF IsFile(files, csv) THEN Len(files[csv].rows) ELSE 0
        ELSE IF IsFile(fs, csv) THEN Len(fs[csv].rows) ELSE 0

Identity(n) == [i \in 1..n |-> i]

Draws(n, shuffle) == IF shuffle THEN Perms(n) ELSE {Identity(n)}

\* The archive.write calls of _save in order: <<source file, arcname>>.
Writes(rows, images_path, fibers_path, profiles_path) ==
    LET imgs == Unique(DropLevelFiber(rows))
        profs == Unique(rows)
        pair(i) == IF i % 2 = 1
                   THEN <<join(images_path, TifNameSave(imgs[(i + 1) \div 2])),
                          <<basename(images_path), TifNameSave(imgs[(i + 1) \div 2])>>>>
                   ELSE <<join(fibers_path, ZipNameSave(imgs[i \div 2])),
                          <<basename(fibers_path), ZipNameSave(imgs[i \div 2])>>>>
    IN  [i \in 1..(2 * Len(imgs)) |-> pair(i)]
        \o [i \in 1..Len(profs) |->
              <<join(profiles_path, ProfileNameSave(profs[i])),
                <<basename(profiles_path), ProfileNameSave(profs[i])>>>>]

\* The writes made before the first one whose source file is missing.
Written(files, writes) ==
    LET bad == {i \in 1..Len(writes) : ~IsFile(files, writes[i][1])}
        stop == IF bad = {} THEN Len(writes)
                ELSE (CHOOSE i \in bad : \A j \in bad : i <= j) - 1
    IN  SubSeq(writes, 1, stop)

\* Dataset._save(summary, output_path, images_path, fibers_path, profiles_path)
_save(rows, output_path, images_path, fibers_path, profiles_path) ==
    LET writes == Writes(rows, images_path, fibers_path, profiles_path)
        done == Written(fs, writes)
        entries == [e \in {done[i][2] : i \in 1..Len(done)} |->
                      fs[(done[CHOOSE i \in 1..Len(done) : done[i][2] = e])[1]]]
    IN  /\ zips' = Overwrite(zips, [a \in {output_path} |-> entries])
        /\ origin' = IF Len(done) = Len(writes)
                     THEN Overwrite(origin, [a \in {output_path} |-> rows])
                     ELSE [a \in (DOMAIN origin) \ {output_path} |-> origin[a]]
        /\ last' = [NoOp EXCEPT !.op = "save", !.archive = output_path,
                                !.complete = (Len(done) = Len(writes))]

\* Dataset.save(path)
save(path) ==
    /\ obj = "ok"
    /\ _save(summary, path, join(dataset_path, <<"images">>),
              join(dataset_path, <<"fibers">>), join(dataset_path, <<"profiles">>))
    /\ UNCHANGED <<summary, image_index, profile_index, _n_image, _n_profile, gens,
                   sequential, fs, dataset_path, obj, built>>

\* ------------------------------------------------- SpecFS: the archives ----
SourceArchive == <<<<"a">>, <<"data", ".zip">>>>

\* Where save writes.
OutputArchive == <<<<"b">>, <<"copy", ".zip">>>>

ArchivePaths == {SourceArchive, OutputArchive}

StoringPaths == {<<<<"tmp">>>>}

\* The archives a run starts from: a dataset whose entries lie under a top
\* directory (root) with the images in a directory (pictures), or directly at
\* the top of the archive (root = <<>>).
Pack(root, pictures, rows) ==
    LET imgs == Unique(DropLevelFiber(rows))
    IN  [e \in {root \o <<SummaryName>>}
               \cup {root \o <<<<pictures>>, TifNameLoad(imgs[i])>> : i \in 1..Len(imgs)}
               \cup {root \o <<<<"fibers">>, ZipNameLoad(imgs[i])>> : i \in 1..Len(imgs)}
               \cup {root \o <<<<"profiles">>, ProfileNameLoad(rows[i])>> : i \in 1..Len(rows)}
          |-> IF e = root \o <<SummaryName>> THEN Csv(rows) ELSE Bin]

\* A directory left at the working directory's place by an earlier session.
Stale == [q \in {<<<<"tmp">>, <<"data">>, SummaryName>>} |-> Csv(<<>>)]

InitFS ==
    \E rows \in Tables, root \in {<<>>, <<<<"data">>>>}, pictures \in {"input", "images"} :
        /\ zips = [a \in {SourceArchive} |-> Pack(root, pictures, rows)]
        /\ fs \in {Empty, Stale}
        /\ summary = <<>>
        /\ image_index = <<>>
        /\ profile_index = <<>>
        /\ _n_image = 0
        /\ _n_profile = 0
        /\ gens = <<>>
        /\ sequential = [k \in Kinds |-> TRUE]
        /\ dataset_path = <<>>
        /\ obj = "none"
        /\ origin = Empty
        /\ built = {}
        /\ last = NoOp

ConstructSome ==
    \E a \in ArchivePaths, sp \in StoringPaths, f \in BOOLEAN, sh \in BOOLEAN :
      \E p \in Draws(RowCount(a, sp, f), sh) : __init__(a, sp, f, sh, p)

SaveSome == save(OutputArchive)

NextFS ==
    \/ ConstructSome
    \/ SaveSome

SpecFS == InitFS /\ [][NextFS]_vars

\* ------------------------------------------- Spec: a loaded Dataset ----
\* State after Dataset.__init__ has loaded a summary table.
Init ==
    \E rows \in Tables, shuffle \in BOOLEAN :
      \E p \in Draws(Len(rows), shuffle) :
        LET tmp == Sample(SortIndex(rows), shuffle, p)
        IN  /\ summary = SortIndex(rows)
            /\ image_index = ImageIndexOf(tmp)
            /\ profile_index = ProfileIndexOf(tmp)
            /\ _n_image = 0
            /\ _n_profile = 0
            /\ gens = <<>>
            /\ sequential = [k \in Kinds |-> TRUE]
            /\ fs = Empty
            /\ zips = Empty
            /\ dataset_path = <<>>
            /\ obj = "ok"
            /\ origin = Empty
            /\ built = {}
            /\ last = NoOp

CallImage == Len(gens) < MaxGens /\ \E b \in BatchSizes : next_image_batch(b)

CallProfile == Len(gens) < MaxGens /\ \E b \in BatchSizes : next_profile_batch(b)

Next ==
    \/ CallImage
    \/ CallProfile
    \/ StartSome
    \/ ResumeSome

Spec == Init /\ [][Next]_vars

\* ------------------------------------- SpecSeq: one batch at a time ----
Idle == ~Unfinished("image") /\ ~Unfinished("profile")

SeqCallImage ==
    /\ Len(gens) < MaxCalls
    /\ Idle
    /\ \E b \in BatchSizes : next_image_batch(b)

SeqCallProfile ==
    /\ Len(gens) < MaxCalls
    /\ Idle
    /\ \E b \in BatchSizes : next_profile_batch(b)

NextSeq ==
    \/ SeqCallImage
    \/ SeqCallProfile
    \/ StartSome
    \/ ResumeSome

SpecSeq == Init /\ [][NextSeq]_vars

\* ------------------------------------------------------------- claims ----
GensOf(kind) == {i \in 1..Len(gens) : gens[i].kind = kind}

\* 0-based index positions a generator has produced so far.
Produced(g) == g.begin .. (g.begin + g.n - 1)

\* 0-based index positions of a generator's slice.
Range(g) == g.begin .. (SliceStop(Len(Index(g.kind)), g.end) - 1)

RECURSIVE Concat(_, _)
\* The keys produced by the first m generators, of the given kind, in call order.
Concat(kind, m) ==
    IF m = 0 THEN <<>>
    ELSE LET g == gens[m]
         IN  IF g.kind = kind
             THEN Concat(kind, m - 1) \o [j \in 1..g.n |-> Index(kind)[g.begin + j]]
             ELSE Concat(kind, m - 1)

LastOf(kind) == CHOOSE i \in GensOf(kind) : \A j \in GensOf(kind) : j <= i

\* Every call on the index asked for batch_size b, each sequence was consumed
\* to its end without a failure before the next call, and the last call
\* produced nothing.
Exhausted(kind, b) ==
    /\ GensOf(kind) # {}
    /\ sequential[kind]
    /\ \A i \in GensOf(kind) : gens[i].batch_size = b /\ gens[i].status = "done"
    /\ gens[LastOf(kind)].n = 0

\* C1: batches of size k requested one after the other, each consumed to its
\* end, until one is empty, deliver the keys of the index, each once and in
\* index order; so does a single batch with batch_size None followed by an
\* empty one.
C1_BatchesPartitionIndex ==
    \A kind \in Kinds, b \in BatchSizes :
        Exhausted(kind, b) => Concat(kind, Len(gens)) = Index(kind)

\* Two non-empty batches of one size and then the empty one.
C1_Witness ==
    \E kind \in Kinds, b \in 1..MaxBatch :
        /\ Exhausted(kind, b)
        /\ Cardinality({i \in GensOf(kind) : gens[i].n > 0}) >= 2

\* C2 as stated: neither cursor ever exceeds the length of its index.
C2_CursorsWithinIndex ==
    /\ _n_image <= Len(image_index)
    /\ _n_profile <= Len(profile_index)

\* The largest effective batch size requested of an index so far.
LargestRequest(kind) ==
    LET sizes == {EffectiveSize(gens[i].batch_size, Len(Index(kind))) : i \in GensOf(kind)}
    IN  IF sizes = {} THEN 0 ELSE CHOOSE x \in sizes : \A y \in sizes : y <= x

\* C2 amended: a cursor is 0, or at most the index length minus one plus the
\* largest effective batch size requested so far: the advance is made from a
\* position below the length and is not clamped.
C2_CursorsBounded ==
    \A kind \in Kinds :
        \/ Cursor(kind) = 0
        \/ Cursor(kind) <= Len(Index(kind)) - 1 + LargestRequest(kind)

\* A cursor past the end of its index.
C2_Witness == \E kind \in Kinds : Cursor(kind) > Len(Index(kind))

\* C3: a sequence requested with the cursor at or past the index length, when
\* consumed, ends at once: no element, no failure, no mapping call, and both
\* cursors as they were.
C3_BatchPastEndIsEmpty ==
    [][\A i \in 1..Len(gens) :
          (/\ gens[i].status = "created"
           /\ gens[i].c0 >= Len(Index(gens[i].kind))
           /\ gens'[i] # gens[i])
          => /\ gens'[i] = [gens[i] EXCEPT !.status = "done"]
             /\ _n_image' = _n_image
             /\ _n_profile' = _n_profile]_vars

\* A sequence requested with the cursor past the end has been consumed.
C3_Witness ==
    \E i \in 1..Len(gens) :
        /\ gens[i].c0 > Len(Index(gens[i].kind))
        /\ gens[i].status = "done"

NoDuplicate(idx) == \A i, j \in 1..Len(idx) : idx[i] = idx[j] => i = j

KeySet(idx) == {idx[i] : i \in 1..Len(idx)}

\* C7: image_index has no duplicate and holds exactly the (experiment, image)
\* pairs of the keys of profile_index, so it is no longer than profile_index;
\* no batch operation changes the indices or the summary table.
C7_ImageIndexIsProjection ==
    /\ [](/\ NoDuplicate(image_index)
          /\ KeySet(image_index) = {<<k[1], k[2]>> : k \in KeySet(profile_index)}
          /\ Len(image_index) <= Len(profile_index))
    /\ [][/\ image_index' = image_index
          /\ profile_index' = profile_index
          /\ summary' = summary]_vars

\* A shuffled table with an image of two fibers, after a batch has produced
\* an element.
C7_Witness ==
    /\ Len(image_index) < Len(profile_index)
    /\ ~IsSorted(profile_index)
    /\ \E i \in 1..Len(gens) : gens[i].n > 0

\* C8 as stated: a call made with the cursor c below the index length has
\* advanced the cursor to c + batch_size by the time it returns, and its
\* sequence starts at c.
C8_CallAdvancesCursor ==
    \A i \in 1..Len(gens) :
        LET g == gens[i]
            size == Len(Index(g.kind))
        IN  g.c0 < size =>
              /\ Cursor(g.kind) >= g.c0 + EffectiveSize(g.batch_size, size)
              /\ g.status # "created" => g.begin = g.c0

\* The positions of a failed generator's batch from the failing one on.
Lost(g) == (g.begin + g.n) .. (SliceStop(Len(Index(g.kind)), g.end) - 1)

\* C9: after the mapping of a key has failed, the generator produces nothing
\* more and keeps the elements it produced, the cursor is not rolled back, and
\* no generator produces a key of that batch from the failing position on.
C9_FailureAbortsBatch ==
    /\ [](\A i \in 1..Len(gens) :
            gens[i].status = "failed" =>
              /\ Cursor(gens[i].kind) >= gens[i].end
              /\ \A j \in GensOf(gens[i].kind) : Produced(gens[j]) \cap Lost(gens[i]) = {})
    /\ [][\A i \in 1..Len(gens) :
            gens[i].status = "failed" => gens'[i] = gens[i]]_vars

\* A batch failed at its first key, and a later batch produced the keys
\* after that batch.
C9_Witness ==
    \E i, j \in 1..Len(gens) :
        /\ gens[i].status = "failed"
        /\ Lost(gens[i]) # {}
        /\ gens[j].kind = gens[i].kind
        /\ gens[j].begin >= gens[i].end
        /\ gens[j].n > 0

\* C10: whatever the interleaving of calls and consumption, two sequences of
\* one index never take a common position, and a step moves the cursor of the
\* index of the generator that starts and leaves the other cursor alone.
C10_SequencesDisjoint ==
    /\ [](\A i, j \in 1..Len(gens) :
            i # j /\ gens[i].kind = gens[j].kind =>
              Range(gens[i]) \cap Range(gens[j]) = {})
    /\ [][\A kind \in Kinds :
            Cursor(kind)' # Cursor(kind) =>
              /\ \E i \in GensOf(kind) : gens[i].status = "created" /\ gens'[i] # gens[i]
              /\ \A other \in Kinds \ {kind} : Cursor(other)' = Cursor(other)]_vars

\* Two sequences of one index outstanding at once, each with an element
\* produced, the second called before the first started.
C10_Witness ==
    \E i, j \in 1..Len(gens) :
        /\ i < j
        /\ gens[i].kind = gens[j].kind
        /\ gens[i].status = "suspended"
        /\ gens[j].status = "suspended"
        /\ gens[j].c0 = gens[i].c0

\* C4 as stated: a Dataset constructed, in a working directory that did not
\* exist, from an archive that save wrote is constructed successfully and has
\* the summary table of the Dataset that was saved.
C4_SaveLoadRoundTrip ==
    (/\ last.op = "construct"
     /\ last.archive \in DOMAIN origin
     /\ ~last.existed)
    => /\ obj = "ok"
       /\ summary = origin[last.archive]

\* C5 as stated: after a construction that extracted the archive, every entry
\* of the archive is a file below the working directory.
C5_EntriesUnderWorkingDirectory ==
    (last.op = "construct" /\ last.decompress) =>
        \A e \in DOMAIN zips[last.archive] :
            \E q \in DOMAIN fs :
                /\ IsPrefix(dataset_path, q)
                /\ IsSuffix(e, q)
                /\ fs[q] = zips[last.archive][e]

\* C5 amended: after a construction that extracted the archive, every entry e
\* of the archive is the file storing_path/e, and it lies below the working
\* directory exactly when the first component of its name is the archive's
\* base name without extension.
C5_EntriesUnderStoringPath ==
    (last.op = "construct" /\ last.decompress) =>
        \A e \in DOMAIN zips[last.archive] :
            LET q == last.storing_path \o e
            IN  /\ IsFile(fs, q)
                /\ fs[q] = zips[last.archive][e]
                /\ IsPrefix(dataset_path, q) <=> e[1] = splitext0(basename(last.archive))

\* An archive whose entries do not start with its base name has been
\* extracted: a file of one of its directories lies outside the working
\* directory, and the construction failed.
C5_Witness ==
    /\ last.op = "construct"
    /\ last.decompress
    /\ obj = "failed"
    /\ \E e \in DOMAIN zips[last.archive] :
          /\ Len(e) > 1
          /\ IsFile(fs, last.storing_path \o e)
          /\ ~IsPrefix(dataset_path, last.storing_path \o e)

\* C6: a construction extracts only if force_decompress is set or the working
\* directory does not exist, and a repeated construction from the same archive
\* and storing path without force_decompress leaves the working directory as
\* it was.
C6_IdempotentExtraction ==
    [][last'.op = "construct" =>
         /\ last'.decompress => (last'.force \/ ~last'.existed)
         /\ (last'.again /\ ~last'.force) =>
              Tree(fs', dataset_path') = Tree(fs, dataset_path')]_vars

\* A second construction from the archive that found the working directory
\* and did not extract.
C6_Witness ==
    /\ last.op = "construct"
    /\ last.again
    /\ ~last.force
    /\ last.existed
    /\ ~last.decompress
    /\ obj = "ok"
    /\ summary # <<>>

====
